---- MODULE Spec2Model ----
(***************************************************************************)
(* State-machine model of scrap_table.py: the IGP earthquake scraper.      *)
(* Invocations of lambda_handler, scrape_last_earthquakes and              *)
(* store_in_dynamodb run as processes that share the DynamoDB table.       *)
(***************************************************************************)
EXTENDS Integers, Sequences, FiniteSets, TLC

\* ------------------------------------------------------------------ bounds
\* longest JSON array / longest HTML table answered by the upstream
MaxLen == 2
\* longest list handed to store_in_dynamodb by racing invocations
MaxBatch == 2
\* how often a behaviour runs an entry point again after its first run
MaxReruns == 1
\* limit=10, the default of scrape_last_earthquakes used by lambda_handler
DefaultLimit == 10

\* ------------------------------------------------------------ Python values
\* Python's None, for the string-valued fields of the model
None == "None"

\* truthiness of a str-or-None value
Truthy(v) == v # None /\ v # ""

\* dict.get(key): the value, or None when the key is missing
Get(item, key) == IF key \in DOMAIN item THEN item[key] ELSE None

\* str.strip() / get_text(strip=True) on the texts the sources carry
Strip(s) ==
  CASE s = " " -> ""
    [] s = " A" -> "A"
    [] s = "B " -> "B"
    [] OTHER -> s

Min(a, b) == IF a <= b THEN a ELSE b

\* seq[:n] for n >= 0
Take(seq, n) == SubSeq(seq, 1, Min(n, Len(seq)))

\* str(uuid.uuid4()): the n-th identifier drawn; uuid4 values are taken to be
\* pairwise distinct and distinct from every agency code
Uuid4(n) == "uuid-" \o ToString(n)

\* ------------------------------------------------------- _format_fecha_local
\* cleaned[:-1] when cleaned.endswith("Z")
DropZ(s) ==
  CASE s = "2024-05-01T10:00:00Z" -> "2024-05-01T10:00:00"
    [] OTHER -> s

\* cleaned.replace("T", " ")
ReplaceT(s) ==
  CASE s = "2024-05-01T10:00:00" -> "2024-05-01 10:00:00"
    [] OTHER -> s

ValueError == [error |-> "ValueError"]

\* datetime.fromisoformat
FromIsoFormat(s) ==
  CASE s = "2024-05-01 10:00:00" ->
         [year |-> 2024, month |-> 5, day |-> 1, hour |-> 10, minute |-> 0, second |-> 0]
    [] OTHER -> ValueError

Pad2(n) == IF n < 10 THEN "0" \o ToString(n) ELSE ToString(n)

\* dt.strftime("%d/%m/%Y %H:%M:%S")
Strftime(dt) ==
  Pad2(dt.day) \o "/" \o Pad2(dt.month) \o "/" \o ToString(dt.year) \o " "
    \o Pad2(dt.hour) \o ":" \o Pad2(dt.minute) \o ":" \o Pad2(dt.second)

format_fecha_local(iso_str) ==
  IF ~Truthy(iso_str) THEN None
  ELSE LET dt == FromIsoFormat(ReplaceT(DropZ(Strip(iso_str))))
       IN  IF dt = ValueError THEN iso_str ELSE Strftime(dt)

\* -------------------------------------------------------- _normalize_api_item
\* `not item`: an empty dict (or null) array element
Falsy(item) == DOMAIN item = {}

\* (item.get("codigo") or "").strip()
Codigo(item) == LET c == Get(item, "codigo") IN Strip(IF Truthy(c) THEN c ELSE "")

\* the normalizer with "id": codigo, the uuid fallback forgotten
normalize_api_item_NoFallback(item, fresh) ==
  [ id               |-> Codigo(item),
    reporte          |-> Codigo(item),
    fecha_hora_local |-> format_fecha_local(Get(item, "fecha_hora")),
    magnitud         |-> IF "magnitud" \in DOMAIN item
                           THEN ToString(item["magnitud"]) ELSE None,
    profundidad_km   |-> Get(item, "profundidad") ]

\* the normalizer with "id": str(uuid.uuid4()), the agency code not used as key
normalize_api_item_AlwaysFresh(item, fresh) ==
  [ id               |-> fresh,
    reporte          |-> Codigo(item),
    fecha_hora_local |-> format_fecha_local(Get(item, "fecha_hora")),
    magnitud         |-> IF "magnitud" \in DOMAIN item
                           THEN ToString(item["magnitud"]) ELSE None,
    profundidad_km   |-> Get(item, "profundidad") ]

\* the canonical record of a truthy item; fresh is the value uuid4 yields if called.
\* referencia, latitud, longitud, tipo_evento, numero, simulacro and created_at
\* pass through item.get exactly as profundidad does and are left out.
normalize_api_item(item, fresh) ==
  [ id               |-> IF Codigo(item) # "" THEN Codigo(item) ELSE fresh,
    reporte          |-> Codigo(item),
    fecha_hora_local |-> format_fecha_local(Get(item, "fecha_hora")),
    magnitud         |-> IF "magnitud" \in DOMAIN item
                           THEN ToString(item["magnitud"]) ELSE None,
    profundidad_km   |-> Get(item, "profundidad") ]

\* the loop of _fetch_from_api over payload[:limit]; ctr counts the uuid4
\* values drawn so far, one more for each record that came out with a drawn id
RECURSIVE NormalizeRows(_, _)
NormalizeRows(rows, ctr) ==
  IF rows = <<>> THEN [out |-> <<>>, ctr |-> ctr]
  ELSE LET row  == Head(rows)
           rec  == normalize_api_item(row, Uuid4(ctr + 1))
           used == IF ~Falsy(row) /\ rec.id = Uuid4(ctr + 1) THEN ctr + 1 ELSE ctr
           rest == NormalizeRows(Tail(rows), used)
       IN  IF Falsy(row) THEN rest
           ELSE [out |-> <<rec>> \o rest.out, ctr |-> rest.ctr]

\* payload[:limit - 1], the slice one short
ApiSlice_OffByOne(payload, limit) == Take(payload, limit - 1)

\* payload[:limit]
ApiSlice(payload, limit) == Take(payload, limit)


\* ---------------------------------------------------------------- upstream
\* agency-native records of the structured feed
ItemA      == [codigo |-> "A", fecha_hora |-> "2024-05-01T10:00:00Z", magnitud |-> 5,
               profundidad |-> "33"]
ItemAPad   == [codigo |-> " A", fecha_hora |-> "ayer", magnitud |-> 4]
ItemNoCode == [magnitud |-> 5, profundidad |-> "10"]
ItemBlank  == [codigo |-> " ", magnitud |-> 3]
ItemEmpty  == << >>

ApiItems == {ItemA, ItemAPad, ItemNoCode, ItemBlank, ItemEmpty}

SeqsUpTo(S, n) == UNION {[1..k -> S] : k \in 0..n}

\* what requests.get(API_SISMOS_URL) / raise_for_status / res.json() can give:
\* a RequestException (no connection, timeout, HTTP error status), a body that is
\* not JSON (ValueError), or a JSON value: an array of records, an object, null
ApiResponses(n) ==
  {[kind |-> "RequestException"], [kind |-> "ValueError"],
   [kind |-> "object"], [kind |-> "null"]}
    \cup {[kind |-> "array", payload |-> pl] : pl \in SeqsUpTo(ApiItems, n)}

\* <tr> rows of the report page, as the texts of their <td> cells
RowA      == <<"A", "Lima", "01/05/2024 10:00:00", "5.0">>
RowB      == <<"B ", "Ica", "01/05/2024 11:00:00", "4.1">>
RowNoCode == <<" ", "Piura", "01/05/2024 12:00:00", "3.9">>
RowShort  == <<"A", "Cusco", "4.4">>

HtmlRows == {RowA, RowB, RowNoCode, RowShort}

\* what requests.get(URL_IGP) / raise_for_status can give: a RequestException
\* or a page whose table holds the rows
HtmlResponses(n) ==
  {[kind |-> "RequestException"]}
    \cup {[kind |-> "page", rows |-> rs] : rs \in SeqsUpTo(HtmlRows, n)}

\* ----------------------------------------------------------- _fetch_from_html
\* the record appended for a row with at least four cells
html_record(cols, fresh) ==
  [ id               |-> IF Strip(cols[1]) # "" THEN Strip(cols[1]) ELSE fresh,
    reporte          |-> Strip(cols[1]),
    referencia       |-> Strip(cols[2]),
    fecha_hora_local |-> Strip(cols[3]),
    magnitud         |-> Strip(cols[4]) ]

\* the loop of _fetch_from_html over rows[:limit]
RECURSIVE ParseRows(_, _)
ParseRows(rows, ctr) ==
  IF rows = <<>> THEN [out |-> <<>>, ctr |-> ctr]
  ELSE LET cols == Head(rows)
           skip == Len(cols) < 4
           rec  == html_record(cols, Uuid4(ctr + 1))
           used == IF ~skip /\ rec.id = Uuid4(ctr + 1) THEN ctr + 1 ELSE ctr
           rest == ParseRows(Tail(rows), used)
       IN  IF skip THEN rest
           ELSE [out |-> <<rec>> \o rest.out, ctr |-> rest.ctr]

\* rows[:limit]
HtmlSlice(rows, limit) == Take(rows, limit)

\* --------------------------------------------------------------------- store
\* the table's hash key
KeyOf(item) == item.id

\* a put that adds the item and leaves an entry with the same key in place
put_item_InsertOnly(table, item) == table \cup {item}

\* batch.put_item(Item=item) on the table: insert, or overwrite the entry that
\* has the same key
put_item(table, item) == {r \in table : KeyOf(r) # KeyOf(item)} \cup {item}

\* table_name or DYNAMO_TABLE
TableName(table_name, env) == IF Truthy(table_name) THEN table_name ELSE env


\* --------------------------------------------------------------------- state
\* concurrent invocations of the module's entry points
Procs == {"inv1", "inv2"}

VARIABLES
  DYNAMO_TABLE,  \* os.environ.get("TABLE_NAME"), read once at import
  table,         \* the items of the DynamoDB table
  lastPut,       \* per key, the item of the latest put_item (history)
  uuids,         \* how many uuid4 values have been drawn
  runs,          \* how many calls have been started
  upstream,      \* the answers of the two sources while they are held unchanged
  baseline,      \* the table as the first successful lambda_handler run left it
  pc,            \* where each invocation stands
  entry,         \* the function each invocation entered
  limit,         \* the limit argument of scrape_last_earthquakes
  apiCall,       \* _fetch_from_api: its state, the response it got, its result
  htmlCall,      \* _fetch_from_html: its state, the response it got, its result
  earthquakes,   \* the list scrape_last_earthquakes returned / store_in_dynamodb got
  storeCall,     \* store_in_dynamodb: its state and its table_name argument
  idx,           \* position of the batch loop in earthquakes
  raised,        \* the exception propagating out of the entered function, or None
  response,      \* what lambda_handler returned
  trace          \* the reads and store operations of the invocation, in order

vars == <<DYNAMO_TABLE, table, lastPut, uuids, runs, upstream, baseline, pc, entry,
          limit, apiCall, htmlCall, earthquakes, storeCall, idx, raised, response,
          trace>>

shared == <<DYNAMO_TABLE, table, lastPut, uuids, runs, upstream, baseline>>

NotRun     == [state |-> "not_run", out |-> <<>>]
NoResponse == [statusCode |-> 0]
Live       == [kind |-> "live"]
NoBaseline == {[id |-> "no baseline"]}

\* the values of TABLE_NAME / table_name: unset, empty, or the table's name
TableNames == {None, "", "sismos"}

\* records a caller may hand to store_in_dynamodb directly
SampleRecords ==
  { normalize_api_item(ItemA, ""), normalize_api_item(ItemAPad, ""),
    html_record(RowB, "") }

InitLocals ==
  /\ pc          = [p \in Procs |-> "idle"]
  /\ entry       = [p \in Procs |-> None]
  /\ limit       = [p \in Procs |-> 0]
  /\ apiCall     = [p \in Procs |-> NotRun]
  /\ htmlCall    = [p \in Procs |-> NotRun]
  /\ earthquakes = [p \in Procs |-> <<>>]
  /\ storeCall   = [p \in Procs |-> NotRun]
  /\ idx         = [p \in Procs |-> 0]
  /\ raised      = [p \in Procs |-> None]
  /\ response    = [p \in Procs |-> NoResponse]
  /\ trace       = [p \in Procs |-> <<>>]

\* module import: TABLE_NAME is read, the table exists and may hold an item of
\* an earlier deployment
Init ==
  /\ DYNAMO_TABLE \in TableNames
  /\ table \in {{}, {html_record(RowA, "")}}
  /\ lastPut = [k \in {KeyOf(r) : r \in table} |-> CHOOSE r \in table : KeyOf(r) = k]
  /\ uuids = 0
  /\ runs = 0
  /\ upstream = [api |-> Live, html |-> Live]
  /\ baseline = NoBaseline
  /\ InitLocals

\* a fresh call frame for invocation p
Enter(p, fn, lim, recs, tname, reruns) ==
  /\ pc[p] \in {"idle", "returned"}
  /\ runs <= reruns
  /\ runs' = runs + 1
  /\ entry' = [entry EXCEPT ![p] = fn]
  /\ limit' = [limit EXCEPT ![p] = lim]
  /\ apiCall' = [apiCall EXCEPT ![p] = NotRun]
  /\ htmlCall' = [htmlCall EXCEPT ![p] = NotRun]
  /\ earthquakes' = [earthquakes EXCEPT ![p] = recs]
  /\ storeCall' = [storeCall EXCEPT ![p] =
                     IF fn = "store_in_dynamodb"
                       THEN [state |-> "called", table_name |-> tname] ELSE NotRun]
  /\ idx' = [idx EXCEPT ![p] = 0]
  /\ raised' = [raised EXCEPT ![p] = None]
  /\ response' = [response EXCEPT ![p] = NoResponse]
  /\ trace' = [trace EXCEPT ![p] = <<>>]
  /\ pc' = [pc EXCEPT ![p] = IF fn = "store_in_dynamodb" THEN "store" ELSE "fetch_api"]
  /\ UNCHANGED <<DYNAMO_TABLE, table, lastPut, uuids, upstream, baseline>>

\* lambda_handler(event, context): scrape_last_earthquakes() with the default limit
CallLambdaHandler(p, reruns) ==
  Enter(p, "lambda_handler", DefaultLimit, <<>>, None, reruns)

\* scrape_last_earthquakes(limit) called directly with a positive limit; limits
\* above the longest payload behave as the default limit does
CallScrape(p, reruns) ==
  \E lim \in 1..MaxLen : Enter(p, "scrape_last_earthquakes", lim, <<>>, None, reruns)

\* store_in_dynamodb(earthquakes, table_name) called directly
CallStore(p, n, reruns) ==
  \E recs \in SeqsUpTo(SampleRecords, n), tname \in {None, "sismos"} :
    Enter(p, "store_in_dynamodb", 0, recs, tname, reruns)


\* ------------------------------------------------------------ _fetch_from_api
\* the whole of _fetch_from_api for one response: RequestException and ValueError
\* are caught and give []; payload[:limit] on a JSON value that is no array
\* raises (TypeError, or KeyError for an object on Python 3.12+), uncaught
fetch_from_api(resp, lim, ctr) ==
  IF resp.kind \in {"RequestException", "ValueError"}
    THEN [state |-> "returned", out |-> <<>>, ctr |-> ctr, exc |-> None]
  ELSE IF resp.kind # "array"
    THEN [state |-> "raised", out |-> <<>>, ctr |-> ctr, exc |-> "TypeError"]
  ELSE LET n == NormalizeRows(ApiSlice(resp.payload, lim), ctr)
       IN  [state |-> "returned", out |-> n.out, ctr |-> n.ctr, exc |-> None]

\* the whole of _fetch_from_html for one response: nothing is caught
fetch_from_html(resp, lim, ctr) ==
  IF resp.kind = "RequestException"
    THEN [state |-> "raised", out |-> <<>>, ctr |-> ctr, exc |-> "RequestException"]
  ELSE LET n == ParseRows(HtmlSlice(resp.rows, lim), ctr)
       IN  [state |-> "returned", out |-> n.out, ctr |-> n.ctr, exc |-> None]

\* scrape_last_earthquakes that reads the HTML page whatever the API gave
ApiResultWins_Never(api_out) == FALSE

\* scrape_last_earthquakes that reads the HTML page and returns the API list
FallbackResult_ApiList(api_out, html_out) == api_out

\* `if earthquakes: return earthquakes` in scrape_last_earthquakes
ApiResultWins(api_out) == api_out # <<>>

\* what scrape_last_earthquakes returns once the fallback has returned
FallbackResult(api_out, html_out) == html_out

\* where control goes when the entered function's callee returns or raises
AfterScrape(p) == IF entry[p] = "lambda_handler" THEN "store" ELSE "returned"
AfterStore(p)  == IF entry[p] = "lambda_handler" THEN "respond" ELSE "returned"
AfterRaise(p)  == IF entry[p] = "lambda_handler" THEN "respond" ELSE "returned"

\* the answers the structured source may give now
ApiAnswers  == IF upstream.api = Live THEN ApiResponses(MaxLen) ELSE {upstream.api}
HtmlAnswers == IF upstream.html = Live THEN HtmlResponses(MaxLen) ELSE {upstream.html}

\* earthquakes = _fetch_from_api(limit); if earthquakes: return earthquakes
FetchFromApi(p) ==
  /\ pc[p] = "fetch_api"
  /\ \E resp \in ApiAnswers :
       LET r == fetch_from_api(resp, limit[p], uuids) IN
       /\ apiCall' = [apiCall EXCEPT ![p] =
                        [state |-> r.state, response |-> resp, out |-> r.out]]
       /\ uuids' = r.ctr
       /\ trace' = [trace EXCEPT ![p] = Append(@, "api_read")]
       /\ IF r.state = "raised"
            THEN /\ raised' = [raised EXCEPT ![p] = r.exc]
                 /\ pc' = [pc EXCEPT ![p] = AfterRaise(p)]
                 /\ UNCHANGED earthquakes
            ELSE /\ UNCHANGED raised
                 /\ IF ApiResultWins(r.out)
                      THEN /\ earthquakes' = [earthquakes EXCEPT ![p] = r.out]
                           /\ pc' = [pc EXCEPT ![p] = AfterScrape(p)]
                      ELSE /\ UNCHANGED earthquakes
                           /\ pc' = [pc EXCEPT ![p] = "fetch_html"]
  /\ UNCHANGED <<DYNAMO_TABLE, table, lastPut, runs, upstream, baseline, entry, limit,
                 htmlCall, storeCall, idx, response>>

\* return _fetch_from_html(limit)
FetchFromHtml(p) ==
  /\ pc[p] = "fetch_html"
  /\ \E resp \in HtmlAnswers :
       LET r == fetch_from_html(resp, limit[p], uuids) IN
       /\ htmlCall' = [htmlCall EXCEPT ![p] =
                         [state |-> r.state, response |-> resp, out |-> r.out]]
       /\ uuids' = r.ctr
       /\ trace' = [trace EXCEPT ![p] = Append(@, "html_read")]
       /\ IF r.state = "raised"
            THEN /\ raised' = [raised EXCEPT ![p] = r.exc]
                 /\ pc' = [pc EXCEPT ![p] = AfterRaise(p)]
                 /\ UNCHANGED earthquakes
            ELSE /\ UNCHANGED raised
                 /\ earthquakes' = [earthquakes EXCEPT ![p] =
                                      FallbackResult(apiCall[p].out, r.out)]
                 /\ pc' = [pc EXCEPT ![p] = AfterScrape(p)]
  /\ UNCHANGED <<DYNAMO_TABLE, table, lastPut, runs, upstream, baseline, entry, limit,
                 apiCall, storeCall, idx, response>>

\* ---------------------------------------------------------- store_in_dynamodb
\* store_in_dynamodb without the `if not table_name` check
store_prologue_NoConfigCheck(eqs, table_name, env) ==
  IF eqs = <<>> THEN "return" ELSE "batch"

\* store_in_dynamodb without the `if not earthquakes` check
store_prologue_NoEmptyCheck(eqs, table_name, env) ==
  IF ~Truthy(TableName(table_name, env)) THEN "raise" ELSE "batch"

\* what store_in_dynamodb does before its batch loop: "return" on an empty
\* list, "raise" without a table name, else "batch"
store_prologue(eqs, table_name, env) ==
  IF eqs = <<>> THEN "return"
  ELSE IF ~Truthy(TableName(table_name, env)) THEN "raise"
  ELSE "batch"

\* store_in_dynamodb up to `with table.batch_writer() as batch`
StoreBegin(p) ==
  /\ pc[p] = "store"
  /\ LET tname == IF entry[p] = "lambda_handler" THEN None ELSE storeCall[p].table_name
         step  == store_prologue(earthquakes[p], tname, DYNAMO_TABLE)
     IN  /\ storeCall' = [storeCall EXCEPT ![p] =
                            [state |-> CASE step = "return" -> "returned"
                                         [] step = "raise"  -> "raised"
                                         [] OTHER           -> "batch",
                             table_name |-> tname]]
         /\ raised' = [raised EXCEPT ![p] =
                         IF step = "raise" THEN "RuntimeError" ELSE @]
         /\ trace' = [trace EXCEPT ![p] =
                        IF step = "batch" THEN @ \o <<"table", "batch_open">> ELSE @]
         /\ idx' = [idx EXCEPT ![p] = IF step = "batch" THEN 1 ELSE @]
         /\ pc' = [pc EXCEPT ![p] = CASE step = "return" -> AfterStore(p)
                                      [] step = "raise"  -> AfterRaise(p)
                                      [] OTHER           -> "batch"]
  /\ UNCHANGED <<shared, entry, limit, apiCall, htmlCall, earthquakes, response>>

\* one turn of `for item in earthquakes: batch.put_item(Item=item)`; the last
\* turn leaves the with block and returns
PutItem(p) ==
  /\ pc[p] = "batch"
  /\ idx[p] <= Len(earthquakes[p])
  /\ LET item == earthquakes[p][idx[p]]
         last == idx[p] = Len(earthquakes[p])
     IN  /\ table' = put_item(table, item)
         /\ lastPut' = [k \in DOMAIN lastPut \cup {KeyOf(item)} |->
                          IF k = KeyOf(item) THEN item ELSE lastPut[k]]
         /\ trace' = [trace EXCEPT ![p] = Append(@, "put")]
         /\ idx' = [idx EXCEPT ![p] = @ + 1]
         /\ storeCall' = [storeCall EXCEPT ![p].state = IF last THEN "returned" ELSE @]
         /\ pc' = [pc EXCEPT ![p] = IF last THEN AfterStore(p) ELSE @]
  /\ UNCHANGED <<DYNAMO_TABLE, uuids, runs, upstream, baseline, entry, limit, apiCall,
                 htmlCall, earthquakes, raised, response>>

\* the store rejects the batch (botocore ClientError): store_in_dynamodb raises
StoreFails(p) ==
  /\ pc[p] = "batch"
  /\ storeCall' = [storeCall EXCEPT ![p].state = "raised"]
  /\ raised' = [raised EXCEPT ![p] = "ClientError"]
  /\ pc' = [pc EXCEPT ![p] = AfterRaise(p)]
  /\ UNCHANGED <<shared, entry, limit, apiCall, htmlCall, earthquakes, idx, response,
                 trace>>

\* -------------------------------------------------------------- lambda_handler
\* lambda_handler that answers 200 with the records when only the store failed
lambda_response_Partial(exc, eqs) ==
  IF exc \in {None, "ClientError"}
    THEN [statusCode |-> 200,
          headers |-> [ContentType |-> "application/json", AllowOrigin |-> "*"],
          body |-> [count |-> Len(eqs), items |-> eqs]]
    ELSE [statusCode |-> 500, body |-> [error |-> exc]]

\* the dict lambda_handler returns: the body is the JSON value json.dumps writes
lambda_response(exc, eqs) ==
  IF exc = None
    THEN [statusCode |-> 200,
          headers |-> [ContentType |-> "application/json", AllowOrigin |-> "*"],
          body |-> [count |-> Len(eqs), items |-> eqs]]
    ELSE [statusCode |-> 500, body |-> [error |-> exc]]

\* the return of the try block, or the except Exception handler
LambdaReturn(p) ==
  /\ pc[p] = "respond"
  /\ response' = [response EXCEPT ![p] = lambda_response(raised[p], earthquakes[p])]
  /\ pc' = [pc EXCEPT ![p] = "returned"]
  /\ baseline' = IF /\ baseline = NoBaseline
                    /\ upstream.api # Live
                    /\ response'[p].statusCode = 200
                   THEN table ELSE baseline
  /\ UNCHANGED <<DYNAMO_TABLE, table, lastPut, uuids, runs, upstream, entry, limit,
                 apiCall, htmlCall, earthquakes, storeCall, idx, raised, trace>>

\* ------------------------------------------------------------- specifications
\* one call of any entry point, against the table as earlier runs left it
Next ==
  \/ CallLambdaHandler("inv1", 0)
  \/ CallScrape("inv1", 0)
  \/ CallStore("inv1", MaxLen, 0)
  \/ FetchFromApi("inv1")
  \/ FetchFromHtml("inv1")
  \/ StoreBegin("inv1")
  \/ PutItem("inv1")
  \/ StoreFails("inv1")
  \/ LambdaReturn("inv1")

Spec == Init /\ [][Next]_vars

\* invocations racing on the table: store_in_dynamodb called from two containers
NextConc ==
  \E p \in Procs :
    \/ CallStore(p, MaxBatch, Cardinality(Procs) - 1)
    \/ StoreBegin(p)
    \/ PutItem(p)
    \/ StoreFails(p)

SpecConc == Init /\ [][NextConc]_vars

\* the scheduled job: lambda_handler run again and again while both sources
\* keep answering as they did
InitReplay ==
  /\ DYNAMO_TABLE \in TableNames
  /\ table \in {{}, {html_record(RowA, "")}}
  /\ lastPut = [k \in {KeyOf(r) : r \in table} |-> CHOOSE r \in table : KeyOf(r) = k]
  /\ uuids = 0
  /\ runs = 0
  /\ upstream \in [api : ApiResponses(MaxLen), html : HtmlResponses(MaxLen)]
  /\ baseline = NoBaseline
  /\ InitLocals

NextReplay ==
  \/ CallLambdaHandler("inv1", MaxReruns)
  \/ FetchFromApi("inv1")
  \/ FetchFromHtml("inv1")
  \/ StoreBegin("inv1")
  \/ PutItem("inv1")
  \/ StoreFails("inv1")
  \/ LambdaReturn("inv1")

SpecReplay == InitReplay /\ [][NextReplay]_vars

\* ---------------------------------------------------------------- properties
\* the network reads of an invocation, in order
Reads(p) == SelectSeq(trace[p], LAMBDA e : e \in {"api_read", "html_read"})

\* the table lookups, batches and puts of an invocation, in order
StoreOps(p) == SelectSeq(trace[p], LAMBDA e : e \in {"table", "batch_open", "put"})

\* the structured read of p was answered with a JSON array
GotArray(p) == apiCall[p].state # "not_run" /\ apiCall[p].response.kind = "array"

\* a payload of agency-native records: no element is an empty object
WellFormed(payload) == \A i \in 1..Len(payload) : ~Falsy(payload[i])

\* scrape_last_earthquakes has returned a list in invocation p
ScrapeReturned(p) ==
  /\ entry[p] \in {"lambda_handler", "scrape_last_earthquakes"}
  /\ pc[p] \in {"store", "batch", "respond", "returned"}
  /\ apiCall[p].state = "returned"
  /\ htmlCall[p].state # "raised"

\* the first Len(eqs) elements of payload, normalized, in payload order
NormalizedPrefix(eqs, payload) ==
  /\ Len(eqs) <= Len(payload)
  /\ \A i \in 1..Len(eqs) :
       /\ eqs[i].id # ""
       /\ eqs[i] = normalize_api_item(payload[i], eqs[i].id)

\* what C1 promises an invocation whose structured read gave this payload
StructuredOnly(p, payload) ==
  /\ pc[p] # "fetch_html"
  /\ "html_read" \notin {trace[p][i] : i \in 1..Len(trace[p])}
  /\ ScrapeReturned(p) =>
       /\ Len(earthquakes[p]) = Min(limit[p], Len(payload))
       /\ NormalizedPrefix(earthquakes[p], payload)

\* C1 as claimed: for every well-formed payload and positive limit the result is
\* the first min(limit, len(payload)) records, normalized, in payload order, and
\* the HTML source is never read
C1_AsClaimed ==
  \A p \in Procs :
    (GotArray(p) /\ WellFormed(apiCall[p].response.payload))
      => StructuredOnly(p, apiCall[p].response.payload)

\* C1 amended: the same for every NON-EMPTY well-formed payload; an empty array
\* makes scrape_last_earthquakes fall back to the HTML source
C1_StructuredWins ==
  \A p \in Procs :
    (/\ GotArray(p)
     /\ WellFormed(apiCall[p].response.payload)
     /\ apiCall[p].response.payload # <<>>)
      => StructuredOnly(p, apiCall[p].response.payload)

\* a direct call with limit 1 answered with two records has returned one
C1_Witness ==
  \E p \in Procs :
    /\ entry[p] = "scrape_last_earthquakes" /\ pc[p] = "returned"
    /\ limit[p] = 1
    /\ GotArray(p) /\ WellFormed(apiCall[p].response.payload)
    /\ Len(apiCall[p].response.payload) = 2
    /\ Len(earthquakes[p]) = 1

\* C2: when _fetch_from_api returns [] (empty payload, transport failure, body
\* that is not JSON) the HTML source is read exactly once, after the API read,
\* and what _fetch_from_html returns is returned unchanged; an empty fallback
\* result is no error
C2_Fallback ==
  \A p \in Procs :
    (apiCall[p].state = "returned" /\ apiCall[p].out = <<>>) =>
      /\ pc[p] = "fetch_html" => Reads(p) = <<"api_read">>
      /\ pc[p] # "fetch_html" =>
           /\ Reads(p) = <<"api_read", "html_read">>
           /\ htmlCall[p].state \in {"returned", "raised"}
           /\ htmlCall[p].state = "returned" => earthquakes[p] = htmlCall[p].out
           /\ (htmlCall[p].state = "returned" /\ htmlCall[p].out = <<>>
                  /\ pc[p] = "returned") =>
                /\ raised[p] = None
                /\ entry[p] = "lambda_handler" => response[p].statusCode = 200

\* both sources came back empty and the call returned an empty list
C2_Witness ==
  \E p \in Procs :
    /\ pc[p] = "returned" /\ raised[p] = None
    /\ apiCall[p].state = "returned" /\ apiCall[p].response.kind = "RequestException"
    /\ htmlCall[p].state = "returned" /\ htmlCall[p].out = <<>>
    /\ earthquakes[p] = <<>>

\* C3 as claimed: _fetch_from_api never raises; every response that is not a
\* JSON array of records gives [] and the fallback, never an error response
C3_NeverRaises ==
  \A p \in Procs :
    (apiCall[p].state # "not_run" /\ apiCall[p].response.kind # "array") =>
      /\ apiCall[p].state = "returned"
      /\ apiCall[p].out = <<>>
      /\ pc[p] = "fetch_html" \/ htmlCall[p].state # "not_run"

\* store_in_dynamodb has run in p with no destination configured
Unconfigured(p) ==
  /\ storeCall[p].state \notin {"not_run", "called"}
  /\ ~Truthy(storeCall[p].table_name)
  /\ ~Truthy(DYNAMO_TABLE)

\* store_in_dynamodb failed with the configuration error before touching the store
ConfigError(p) ==
  /\ storeCall[p].state = "raised"
  /\ raised[p] = "RuntimeError"
  /\ StoreOps(p) = <<>>

\* C4 as claimed: for EVERY input sequence, store_in_dynamodb without a
\* configured destination fails with the configuration error before any store call
C4_AsClaimed == \A p \in Procs : Unconfigured(p) => ConfigError(p)

\* C4 amended: for every NON-EMPTY input sequence; the empty sequence returns
\* before the destination is looked at
C4_ConfigError ==
  \A p \in Procs : (Unconfigured(p) /\ earthquakes[p] # <<>>) => ConfigError(p)

\* a direct call with records, no table_name and TABLE_NAME unset has raised
C4_Witness ==
  \E p \in Procs :
    /\ entry[p] = "store_in_dynamodb" /\ pc[p] = "returned"
    /\ Unconfigured(p) /\ storeCall[p].table_name = None /\ DYNAMO_TABLE = None
    /\ Len(earthquakes[p]) = 2
    /\ raised[p] = "RuntimeError"

\* neither acquisition nor persistence raised in p, and both are over
NothingRaised(p) ==
  /\ apiCall[p].state = "returned"
  /\ htmlCall[p].state \in {"not_run", "returned"}
  /\ storeCall[p].state = "returned"

SomethingRaised(p) ==
  \/ apiCall[p].state = "raised"
  \/ htmlCall[p].state = "raised"
  \/ storeCall[p].state = "raised"

\* the list acquisition produced in p
Acquired(p) == IF apiCall[p].out # <<>> THEN apiCall[p].out ELSE htmlCall[p].out

\* C5: lambda_handler ends with 200, count and the full items list exactly when
\* nothing raised, and otherwise with 500 and an error message only; a failed
\* persistence after a successful acquisition is the 500, without records
C5_TwoOutcomes ==
  \A p \in Procs :
    (entry[p] = "lambda_handler" /\ pc[p] = "returned") =>
      \/ /\ NothingRaised(p)
         /\ response[p].statusCode = 200
         /\ response[p].body = [count |-> Len(Acquired(p)), items |-> Acquired(p)]
      \/ /\ SomethingRaised(p)
         /\ response[p].statusCode = 500
         /\ DOMAIN response[p].body = {"error"}
         /\ DOMAIN response[p] = {"statusCode", "body"}

\* records were acquired, one was written, then the store failed: a 500
C5_Witness ==
  \E p \in Procs :
    /\ entry[p] = "lambda_handler" /\ pc[p] = "returned"
    /\ Acquired(p) # <<>> /\ htmlCall[p].state # "raised"
    /\ storeCall[p].state = "raised" /\ raised[p] = "ClientError"
    /\ "put" \in {trace[p][i] : i \in 1..Len(trace[p])}
    /\ response[p].statusCode = 500

\* every id names one entry of the table, and it is the item last put under it
UpsertByKey ==
  /\ \A r1, r2 \in table : KeyOf(r1) = KeyOf(r2) => r1 = r2
  /\ {KeyOf(r) : r \in table} = DOMAIN lastPut
  /\ \A r \in table : r = lastPut[KeyOf(r)]

\* a put of an item the table already holds leaves the table as it is
PutTwiceIsPutOnce ==
  \A p \in Procs :
    (/\ pc[p] = "batch" /\ idx[p] <= Len(earthquakes[p])
     /\ earthquakes[p][idx[p]] \in table
     /\ trace'[p] = Append(trace[p], "put"))
      => table' = table

\* C6: the table holds one entry per id, the entry is the record written last
\* under that id, also when invocations interleave their puts, and writing a
\* record again changes nothing
C6_Upsert == []UpsertByKey /\ [][PutTwiceIsPutOnce]_vars

\* two invocations have both written the same id with different contents
C6_Witness ==
  \E p, q \in Procs :
    /\ p # q
    /\ storeCall[p].state = "returned" /\ storeCall[q].state = "returned"
    /\ Len(earthquakes[p]) = 2 /\ Len(earthquakes[q]) = 2
    /\ KeyOf(earthquakes[p][2]) = KeyOf(earthquakes[q][2])
    /\ earthquakes[p][2] # earthquakes[q][2]
    /\ earthquakes[q][2] \in table

\* the records a lambda_handler run acquires from the unchanged sources all
\* carry an agency code
CodedRun ==
  LET items == IF upstream.api.kind = "array"
                 THEN {it \in {upstream.api.payload[i] :
                                 i \in 1..Len(upstream.api.payload)} : ~Falsy(it)}
                 ELSE {}
      rows  == IF upstream.html.kind = "page"
                 THEN {r \in {upstream.html.rows[i] :
                                i \in 1..Len(upstream.html.rows)} : Len(r) >= 4}
                 ELSE {}
  IN  IF items # {} THEN \A it \in items : Codigo(it) # ""
      ELSE \A r \in rows : Strip(r[1]) # ""

\* a lambda_handler run has just ended with success, after an earlier one did
RanAgain ==
  /\ baseline # NoBaseline
  /\ pc["inv1"] = "returned"
  /\ response["inv1"].statusCode = 200

\* C7 as claimed: with both sources unchanged, every successful run of
\* scrape_last_earthquakes then store_in_dynamodb leaves the table as the first
\* successful run left it
C7_AsClaimed == RanAgain => table = baseline

\* C7 amended: the same, provided every acquired record carries a non-empty
\* agency code (a record without one gets a new uuid4 id in every run)
C7_Convergent == (RanAgain /\ CodedRun) => table = baseline

\* lambda_handler has run twice with success on coded records it had to write
C7_Witness ==
  /\ baseline # NoBaseline /\ CodedRun
  /\ runs = 2 /\ pc["inv1"] = "returned"
  /\ response["inv1"].statusCode = 200
  /\ Len(earthquakes["inv1"]) = 2
  /\ earthquakes["inv1"][1].id # earthquakes["inv1"][2].id
  /\ table = baseline

\* the agency report codes the modelled sources carry, trimmed
Codes == {"A", "B"}

\* an id that is no agency code, hence one uuid4 generated
IsUuid(id) == id # "" /\ id \notin Codes

\* the ids of a list are non-empty, and a record without agency code has a
\* generated id no other record of the list has
FreshIds(out) ==
  \A i \in 1..Len(out) :
    /\ out[i].id # ""
    /\ out[i].reporte = "" =>
         /\ IsUuid(out[i].id)
         /\ \A j \in 1..Len(out) : j # i => out[j].id # out[i].id

\* C8: every record of either adapter has a non-empty id, and a record whose
\* agency code is empty or missing has a generated id distinct within its batch
C8_Ids == \A p \in Procs : FreshIds(apiCall[p].out) /\ FreshIds(htmlCall[p].out)

\* a batch with two records that lack a code, one missing and one blank
C8_Witness ==
  \E p \in Procs :
    /\ GotArray(p)
    /\ apiCall[p].response.payload = <<ItemNoCode, ItemBlank>>
    /\ Len(apiCall[p].out) = 2
    /\ apiCall[p].out[1].reporte = "" /\ apiCall[p].out[2].reporte = ""

\* C9: store_in_dynamodb with an empty sequence returns without error and
\* without a table lookup, a batch or a put
C9_EmptyNoop ==
  \A p \in Procs :
    (storeCall[p].state \notin {"not_run", "called"} /\ earthquakes[p] = <<>>) =>
      /\ storeCall[p].state = "returned"
      /\ StoreOps(p) = <<>>
      /\ raised[p] = None

\* an empty sequence was stored with no destination configured
C9_Witness ==
  \E p \in Procs :
    /\ storeCall[p].state = "returned" /\ earthquakes[p] = <<>>
    /\ ~Truthy(DYNAMO_TABLE) /\ ~Truthy(storeCall[p].table_name)
    /\ pc[p] = "returned"

\* the reads and the batch of an invocation, without the puts
Steps(p) == SelectSeq(trace[p], LAMBDA e : e \in {"api_read", "html_read", "batch_open"})

Puts(p) == SelectSeq(trace[p], LAMBDA e : e = "put")

\* C10: a lambda_handler invocation reads the API first and at most once, reads
\* the HTML page at most once and only after the API read returned empty, opens
\* at most one batch and only after acquisition is over, and repeats nothing
C10_Sequential ==
  \A p \in Procs :
    entry[p] = "lambda_handler" =>
      /\ Steps(p) \in { <<>>, <<"api_read">>, <<"api_read", "html_read">>,
                         <<"api_read", "batch_open">>,
                         <<"api_read", "html_read", "batch_open">> }
      /\ Len(Reads(p)) = 2 => (apiCall[p].state = "returned" /\ apiCall[p].out = <<>>)
      /\ StoreOps(p) # <<>> =>
           /\ apiCall[p].state = "returned"
           /\ apiCall[p].out # <<>> \/ htmlCall[p].state = "returned"
           /\ StoreOps(p) = <<"table", "batch_open">> \o Puts(p)
           /\ trace[p] = Reads(p) \o StoreOps(p)
           /\ Len(Puts(p)) <= Len(earthquakes[p])

\* the longest run: API read, HTML read, one batch with two puts
C10_Witness ==
  \E p \in Procs :
    /\ entry[p] = "lambda_handler" /\ pc[p] = "returned"
    /\ trace[p] = <<"api_read", "html_read", "table", "batch_open", "put", "put">>
    /\ response[p].statusCode = 200

====
